---- MODULE Spec2Model ----
(***************************************************************************)
(* Model of extract() in extract_tdee.py: the weekly spreadsheet grid is   *)
(* scanned row by row; every row that carries a datetime in column B and   *)
(* the tag 'Weight' in column C is expanded, together with the row above   *)
(* it (the calorie row), into at most seven per-day entries.               *)
(***************************************************************************)
EXTENDS Integers, Sequences, FiniteSets, TLC

VARIABLES pc, input_file, sheet, row, import_entries, origin, now,
          output, stdout, exc

vars == <<pc, input_file, sheet, row, import_entries, origin, now,
          output, stdout, exc>>

----------------------------------------------------------------------------
(* Python values held by spreadsheet cells and by the entry fields.        *)

None == [kind |-> "none"]
PyInt(n) == [kind |-> "int", n |-> n]
\* an int of magnitude 10**exp10 (openpyxl yields an int for a numeric cell
\* written without '.', 'e' or 'E')
PyPow10(e) == [kind |-> "pow10", exp10 |-> e]
PyStr(s) == [kind |-> "str", text |-> s]
PyFloat(n) == [kind |-> "float", v |-> n]
PyDatetime(y, m, d) == [kind |-> "datetime", y |-> y, m |-> m, d |-> d]
PyDate(y, m, d) == [kind |-> "date", y |-> y, m |-> m, d |-> d]

Ok(v) == [raised |-> FALSE, value |-> v]
Raise(e) == [raised |-> TRUE, error |-> e]

\* the text literals of the model that float() parses, with their values
NumericText == ("71" :> 71)

\* float(val) for a val that is not None
float(val) ==
    CASE val.kind = "int" -> Ok(PyFloat(val.n))
      [] val.kind = "float" -> Ok(val)
      [] val.kind = "bool" -> Ok(PyFloat(IF val.b THEN 1 ELSE 0))
      [] val.kind = "pow10" ->
            IF val.exp10 > 308 THEN Raise("OverflowError")
            ELSE Ok([kind |-> "float", pow10 |-> val.exp10])
      [] val.kind = "str" ->
            IF val.text \in DOMAIN NumericText
            THEN Ok(PyFloat(NumericText[val.text]))
            ELSE Raise("ValueError")
      [] OTHER -> Raise("TypeError")

\* safe_float: the value returned, or the exception that leaves it
safe_float(val) ==
    IF val = None THEN Ok(None)
    ELSE LET r == float(val)
         IN  IF r.raised /\ r.error \in {"ValueError", "TypeError"}
             THEN Ok(None)
             ELSE r

----------------------------------------------------------------------------
(* datetime.date arithmetic: date - timedelta(days) goes through the       *)
(* proleptic Gregorian ordinal, as datetime does.                          *)

IsLeap(y) == (y % 4 = 0) /\ ((y % 100 # 0) \/ (y % 400 = 0))

DaysInMonth(y, m) ==
    IF m = 2 THEN (IF IsLeap(y) THEN 29 ELSE 28)
    ELSE IF m \in {4, 6, 9, 11} THEN 30 ELSE 31

DaysBeforeYear(y) ==
    LET p == y - 1 IN p * 365 + (p \div 4) - (p \div 100) + (p \div 400)

RECURSIVE DaysBeforeMonth(_, _)
DaysBeforeMonth(y, m) ==
    IF m = 1 THEN 0 ELSE DaysBeforeMonth(y, m - 1) + DaysInMonth(y, m - 1)

ToOrdinal(dt) == DaysBeforeYear(dt.y) + DaysBeforeMonth(dt.y, dt.m) + dt.d

\* the month and day of the r-th day of year y, searched from month m on
RECURSIVE MonthDay(_, _, _)
MonthDay(y, m, r) ==
    IF r <= DaysInMonth(y, m) THEN PyDate(y, m, r)
    ELSE MonthDay(y, m + 1, r - DaysInMonth(y, m))

FromOrdinal(n) ==
    LET y == CHOOSE yy \in (n \div 366)..((n \div 365) + 1) :
                 DaysBeforeYear(yy) < n /\ n <= DaysBeforeYear(yy + 1)
    IN  MonthDay(y, 1, n - DaysBeforeYear(y))

\* cell_date.date()
DateOf(cell) == PyDate(cell.y, cell.m, cell.d)

\* saturday_date - datetime.timedelta(days=days_before_sat)
MinusDays(dt, days) == FromOrdinal(ToOrdinal(dt) - days)

Pad2(n) == IF n < 10 THEN "0" \o ToString(n) ELSE ToString(n)

Pad4(n) ==
    IF n < 10 THEN "000" \o ToString(n)
    ELSE IF n < 100 THEN "00" \o ToString(n)
    ELSE IF n < 1000 THEN "0" \o ToString(n)
    ELSE ToString(n)

\* actual_date.isoformat()
isoformat(dt) == Pad4(dt.y) \o "-" \o Pad2(dt.m) \o "-" \o Pad2(dt.d)

----------------------------------------------------------------------------
(* The worksheet 'TDEE': sheet[r][c] is sheet.cell(row=r, column=c).value.  *)
(* The variable sheet holds the rows the scan has read so far.             *)

FirstRow == 12
\* the scan range(12, 100) is cut down to FirstRow..LastRow
LastRow == 14
DateCol == 2
TypeCol == 3
FirstValCol == 4
SlotCount == 7

Slots == 0..(SlotCount - 1)
Cols == DateCol..(FirstValCol + SlotCount - 1)

\* a row with the given date cell, type cell and seven value cells
MkRow(date, tag, vals) ==
    [c \in Cols |-> IF c = DateCol THEN date
                    ELSE IF c = TypeCol THEN tag
                    ELSE vals[c - FirstValCol]]

\* seven filled value cells: base, base + 1, ...
Week(base) == [i \in Slots |-> PyInt(base + i)]

\* seven value cells of which the first and the last are filled
Arr(first, last) ==
    [i \in Slots |-> IF i = 0 THEN first
                     ELSE IF i = SlotCount - 1 THEN last ELSE None]

\* week-ending cells: two anchors six days apart, so that the last day of
\* the first week is the first day of the second
Anchor1 == PyDatetime(2025, 12, 27)
Anchor2 == PyDatetime(2026, 1, 2)

\* the rows a worksheet of the model is made of
RowPool ==
    { MkRow(Anchor1, PyStr("Weight"), Week(64)),
      MkRow(Anchor2, PyStr("Weight"), Arr(None, PyStr("71"))),
      MkRow(None, PyStr("Cal."), Arr(PyInt(2200), PyInt(2300))),
      MkRow(None, PyStr("Cal."), Arr(PyInt(2200), PyStr("n/a"))),
      MkRow(None, None, Arr(None, None)),
      MkRow(None, PyStr("Notes"), Arr(PyInt(1800), None)),
      MkRow(PyStr("n/a"), PyStr("Weight"), Arr(PyInt(72), PyInt(72))),
      MkRow(None, PyStr("Weight"), Arr(PyInt(73), None)),
      MkRow(None, PyStr("Cal."), Arr(None, PyPow10(400))) }

possible_paths ==
    << "Improved_TDEE_Tracker.xlsx",
       "/home/bkutasi/Downloads/Improved_TDEE_Tracker.xlsx",
       "../Improved_TDEE_Tracker.xlsx" >>

output_file == "import_data.json"

----------------------------------------------------------------------------
(* The body of the row loop.                                               *)

\* isinstance(cell_date, datetime.datetime) and cell_type == 'Weight'
IsWeightRow(rw) ==
    rw[DateCol].kind = "datetime" /\ rw[TypeCol] = PyStr("Weight")

\* slip: the weights are read from the row above
w_vals_RowAbove(sh, r) == [i \in Slots |-> sh[r - 1][FirstValCol + i]]

\* [sheet.cell(row=row, column=c).value for c in range(4, 11)]
w_vals(sh, r) == [i \in Slots |-> sh[r][FirstValCol + i]]

\* slip: the calories are read from the weight row itself
c_vals_SameRow(sh, r) == [i \in Slots |-> sh[r][FirstValCol + i]]

\* [sheet.cell(row=row-1, column=c).value for c in range(4, 11)]
c_vals(sh, r) == [i \in Slots |-> sh[r - 1][FirstValCol + i]]

\* slip: days_before_sat = 7 - i
date_str_OffByOne(saturday_date, i) ==
    isoformat(MinusDays(saturday_date, SlotCount - i))

\* saturday_date - timedelta(days=6 - i), as an ISO string
date_str(saturday_date, i) ==
    isoformat(MinusDays(saturday_date, (SlotCount - 1) - i))

\* slip: "and" in place of "or"
HasData_Both(w_float, c_float) == w_float # None /\ c_float # None

\* w_float is not None or c_float is not None
HasData(w_float, c_float) == w_float # None \/ c_float # None

NewEntry(w_float, c_float, clock) ==
    [weight |-> w_float, calories |-> c_float,
     notes |-> "Imported from Excel", updatedAt |-> clock]

\* slip: a date met again adds its calories to those already stored
Put_Accumulate(entries, key, value) ==
    [k \in DOMAIN entries \cup {key} |->
        IF k # key THEN entries[k]
        ELSE IF key \in DOMAIN entries
                /\ entries[key].calories # None /\ value.calories # None
             THEN [value EXCEPT !.calories =
                      PyFloat(entries[key].calories.v + value.calories.v)]
             ELSE value]

\* import_entries[key] = value
Put(entries, key, value) ==
    [k \in DOMAIN entries \cup {key} |->
        IF k = key THEN value ELSE entries[k]]

\* for i in range(7): ... from slot i on; an exception raised by
\* safe_float ends the loop with the entries written so far
RECURSIVE ExpandWeek(_, _, _, _, _, _)
ExpandWeek(entries, saturday_date, wv, cv, i, clock) ==
    IF i = SlotCount THEN [raised |-> FALSE, entries |-> entries]
    ELSE LET w_float == safe_float(wv[i])
             c_float == safe_float(cv[i])
         IN  IF w_float.raised
             THEN [raised |-> TRUE, error |-> w_float.error,
                   entries |-> entries]
             ELSE IF c_float.raised
             THEN [raised |-> TRUE, error |-> c_float.error,
                   entries |-> entries]
             ELSE ExpandWeek(
                     IF HasData(w_float.value, c_float.value)
                     THEN Put(entries, date_str(saturday_date, i),
                              NewEntry(w_float.value, c_float.value, clock))
                     ELSE entries,
                     saturday_date, wv, cv, i + 1, clock)

\* one iteration of "for row in range(12, 100)" on a weight row
ProcessRow(entries, sh, r, clock) ==
    ExpandWeek(entries, DateOf(sh[r][DateCol]), w_vals(sh, r),
               c_vals(sh, r), 0, clock)

EmptyDict == [k \in {} |-> None]

\* the slots of row r for which the iteration writes an entry: those with
\* data that come before the first slot where safe_float raises
WrittenSlots(sh, r) ==
    LET bad == {i \in Slots : \/ safe_float(w_vals(sh, r)[i]).raised
                              \/ safe_float(c_vals(sh, r)[i]).raised}
    IN  {i \in Slots :
           /\ \A b \in bad : i < b
           /\ HasData(safe_float(w_vals(sh, r)[i]).value,
                      safe_float(c_vals(sh, r)[i]).value)}

\* history of the scan: the row and slot that last wrote each key
RowOrigin(old, sh, r) ==
    LET pairs == {<<date_str(DateOf(sh[r][DateCol]), i), i>> :
                     i \in WrittenSlots(sh, r)}
        keys == {p[1] : p \in pairs}
    IN  [k \in DOMAIN old \cup keys |->
            IF k \in keys
            THEN [row |-> r, slot |-> (CHOOSE p \in pairs : p[1] = k)[2]]
            ELSE old[k]]

----------------------------------------------------------------------------
(* The export: sorted(import_entries.items()) orders the ISO keys as       *)
(* strings, which for zero-padded ISO dates is the order of (y, m, d).     *)

\* the dates an ISO key of the model can stand for
IsoDates ==
    { MinusDays(DateOf(rw[DateCol]), k) :
        rw \in {x \in RowPool : x[DateCol].kind = "datetime"}, k \in 0..7 }

IsoTable == [dt \in IsoDates |-> isoformat(dt)]

DateOfIso(s) == CHOOSE dt \in IsoDates : IsoTable[dt] = s

\* a < b on ISO date strings
StrLess(a, b) ==
    LET x == DateOfIso(a)
        y == DateOfIso(b)
    IN  \/ x.y < y.y
        \/ x.y = y.y /\ x.m < y.m
        \/ x.y = y.y /\ x.m = y.m /\ x.d < y.d

\* sorted(keys)
RECURSIVE SortedKeys(_)
SortedKeys(keys) ==
    IF keys = {} THEN << >>
    ELSE LET least == CHOOSE k \in keys :
                          \A o \in keys \ {k} : StrLess(k, o)
         IN  <<least>> \o SortedKeys(keys \ {least})

\* dict(sorted(import_entries.items())), as the ordered list of its items
sorted_entries(entries) ==
    LET ks == SortedKeys(DOMAIN entries)
    IN  [n \in 1..Len(ks) |-> <<ks[n], entries[ks[n]]>>]

data_to_export(entries, clock) ==
    [version |-> 1,
     exportedAt |-> clock,
     settings |-> [weightUnit |-> "kg", calorieUnit |-> "cal"],
     entries |-> sorted_entries(entries)]

Say(text, args) == [text |-> text, args |-> args]

\* the summary printed after the file is written
Summary(entries) ==
    LET dates == SortedKeys(DOMAIN entries)
    IN  IF dates # << >>
        THEN << Say("Successfully exported entries to",
                    <<Cardinality(DOMAIN entries), output_file>>),
                Say("Date range", <<dates[1], dates[Len(dates)]>>) >>
        ELSE << Say("No entries found!", << >>) >>

----------------------------------------------------------------------------
(* extract()                                                               *)

Init ==
    /\ pc = "probe"
    /\ input_file = None
    /\ sheet = [r \in {} |-> None]
    /\ row = FirstRow
    /\ import_entries = EmptyDict
    /\ origin = EmptyDict
    /\ now = 0
    /\ output = << >>
    /\ stdout = << >>
    /\ exc = None

\* for path in possible_paths: if os.path.exists(path): ... break
FirstExisting(existing) ==
    IF existing = {} THEN None
    ELSE PyStr(possible_paths[CHOOSE n \in existing :
                                 \A o \in existing : n <= o])

\* lines 24-28: some candidate path exists and becomes input_file
FindInput ==
    /\ pc = "probe"
    /\ \E existing \in (SUBSET DOMAIN possible_paths) \ {{}} :
          input_file' = FirstExisting(existing)
    /\ stdout' = Append(stdout, Say("Reading from", <<input_file'>>))
    /\ pc' = "load"
    /\ UNCHANGED <<sheet, row, import_entries, origin, now, output, exc>>

\* slip: the "return" after the diagnostic is missing
InputNotFound_NoReturn ==
    /\ pc = "probe"
    /\ stdout' = stdout \o
          << Say("Error: Could not find Improved_TDEE_Tracker.xlsx", << >>),
             Say("Tried", possible_paths) >>
    /\ pc' = "load"
    /\ UNCHANGED <<input_file, sheet, row, import_entries, origin, now,
                   output, exc>>

\* lines 30-33: no candidate path exists
InputNotFound ==
    /\ pc = "probe"
    /\ FirstExisting({}) = None
    /\ stdout' = stdout \o
          << Say("Error: Could not find Improved_TDEE_Tracker.xlsx", << >>),
             Say("Tried", possible_paths) >>
    /\ pc' = "returned"
    /\ UNCHANGED <<input_file, sheet, row, import_entries, origin, now,
                   output, exc>>

\* lines 38-41: the workbook loads and has a sheet 'TDEE'
LoadWorkbook ==
    /\ pc = "load"
    /\ pc' = "scan"
    /\ UNCHANGED <<input_file, sheet, row, import_entries, origin, now,
                   output, stdout, exc>>

\* lines 38-39: load_workbook raises, or the workbook has no sheet 'TDEE'
LoadFails ==
    /\ pc = "load"
    /\ \E e \in {"InvalidFileException", "KeyError"} : exc' = PyStr(e)
    /\ pc' = "raised"
    /\ UNCHANGED <<input_file, sheet, row, import_entries, origin, now,
                   output, stdout>>

\* what row r - 1 can hold: the row the scan has seen there, or any row when
\* it lies above the scan range and has not been read yet
RowAbove(sh, r) ==
    IF r - 1 \in DOMAIN sh THEN {sh[r - 1]} ELSE RowPool

\* one iteration of the row loop on a row that is not a dated Weight row
SkipRow ==
    /\ pc = "scan"
    /\ row <= LastRow
    /\ \E rw \in RowPool :
          /\ ~IsWeightRow(rw)
          /\ sheet' = sheet @@ (row :> rw)
    /\ row' = row + 1
    /\ UNCHANGED <<pc, input_file, import_entries, origin, now, output,
                   stdout, exc>>

\* one iteration of the row loop on a dated Weight row; an exception that
\* safe_float lets out ends extract()
ExpandRow ==
    /\ pc = "scan"
    /\ row <= LastRow
    /\ \E rw \in RowPool, above \in RowAbove(sheet, row) :
          /\ IsWeightRow(rw)
          /\ sheet' = sheet @@ (row :> rw) @@ ((row - 1) :> above)
          /\ LET res == ProcessRow(import_entries, sheet', row, now)
             IN  /\ import_entries' = res.entries
                 /\ origin' = RowOrigin(origin, sheet', row)
                 /\ IF res.raised
                    THEN /\ exc' = PyStr(res.error)
                         /\ pc' = "raised"
                         /\ row' = row
                    ELSE /\ exc' = exc
                         /\ pc' = pc
                         /\ row' = row + 1
    /\ now' = now + 1
    /\ UNCHANGED <<input_file, output, stdout>>

\* lines 95-118: the loop is over; write the file and print the summary
Export ==
    /\ pc = "scan"
    /\ row > LastRow
    /\ output' = Append(output, [file |-> output_file,
                                 data |-> data_to_export(import_entries, now)])
    /\ stdout' = stdout \o Summary(import_entries)
    /\ now' = now + 1
    /\ pc' = "returned"
    /\ UNCHANGED <<input_file, sheet, row, import_entries, origin, exc>>

Next ==
    \/ FindInput
    \/ InputNotFound
    \/ LoadWorkbook
    \/ LoadFails
    \/ SkipRow
    \/ ExpandRow
    \/ Export

Spec == Init /\ [][Next]_vars

----------------------------------------------------------------------------
(* Vocabulary of the properties.                                           *)

\* the rows the loop has been through
Scanned == {r \in DOMAIN sheet : r >= FirstRow}

\* the scanned rows that were expanded into entries
WeekRows == {r \in Scanned : IsWeightRow(sheet[r])}

ScanComplete == pc \in {"scan", "returned"} /\ row > LastRow

IsValidDate(cell) == cell.kind = "datetime"

\* the weight and calories of every entry, without updatedAt and notes
Fields(entries) ==
    [k \in DOMAIN entries |-> <<entries[k].weight, entries[k].calories>>]

\* the calendar day before dt, and the day n days before dt, counted one
\* day at a time
PrevDay(dt) ==
    IF dt.d > 1 THEN PyDate(dt.y, dt.m, dt.d - 1)
    ELSE IF dt.m > 1
         THEN PyDate(dt.y, dt.m - 1, DaysInMonth(dt.y, dt.m - 1))
         ELSE PyDate(dt.y - 1, 12, 31)

RECURSIVE DaysBack(_, _)
DaysBack(dt, n) == IF n = 0 THEN dt ELSE DaysBack(PrevDay(dt), n - 1)

\* normalized weight and calories that the week of row r holds in slot i
WeightIn(r, i) == safe_float(sheet[r][FirstValCol + i])
CaloriesIn(r, i) == safe_float(sheet[r - 1][FirstValCol + i])

\* the scanner state of the specification: a valid date cell has been seen
\* in the rows before row r / the last such date
DatedBefore(r) == {q \in Scanned : q < r /\ IsValidDate(sheet[q][DateCol])}
CurrentAnchor(r) ==
    DateOf(sheet[CHOOSE q \in DatedBefore(r) :
                    \A o \in DatedBefore(r) : o <= q][DateCol])

IsNumber(cell) == cell.kind = "int"
IsText(cell) == cell.kind = "str" /\ cell.text \notin DOMAIN NumericText

\* all orders of the expanded rows, and the entries that expanding them in
\* the order seq (its first n rows) gives
Orders(S) ==
    {seq \in [1..Cardinality(S) -> S] :
        \A a, b \in 1..Cardinality(S) : a # b => seq[a] # seq[b]}

RECURSIVE ExpandInOrder(_, _)
ExpandInOrder(seq, n) ==
    IF n = 0 THEN EmptyDict
    ELSE ProcessRow(ExpandInOrder(seq, n - 1), sheet, seq[n], 0).entries

\* for each date at most one expanded week holds a non-null weight and at
\* most one holds non-null calories
AtMostOneSource ==
    LET keys == [r \in WeekRows |->
                   [i \in Slots |-> date_str(DateOf(sheet[r][DateCol]), i)]]
    IN  \A r1, r2 \in WeekRows : \A i, j \in Slots :
           (r1 # r2 /\ keys[r1][i] = keys[r2][j]) =>
              /\ ~(WeightIn(r1, i) # Ok(None) /\ WeightIn(r2, j) # Ok(None))
              /\ ~(CaloriesIn(r1, i) # Ok(None)
                     /\ CaloriesIn(r2, j) # Ok(None))

----------------------------------------------------------------------------
\* C1: null-preservation. Once the entry of a date holds a non-null weight,
\* no later step of the scan leaves that date with a null weight; likewise
\* a non-null calories value is never replaced by null.
C1_NullPreservation ==
    [][\A d \in DOMAIN import_entries :
          /\ import_entries[d].weight # None
                => import_entries'[d].weight # None
          /\ import_entries[d].calories # None
                => import_entries'[d].calories # None]_vars

\* C2: omission rule. Every entry has a non-null weight or non-null
\* calories at every moment, and when the scan is over a date string is a
\* key iff some expanded week holds a non-null normalized weight or
\* calories value in the slot of that date.
C2_OmissionRule ==
    /\ \A k \in DOMAIN import_entries :
          import_entries[k].weight # None \/ import_entries[k].calories # None
    /\ ScanComplete =>
          DOMAIN import_entries =
             { isoformat(DaysBack(DateOf(sheet[r][DateCol]),
                                  (SlotCount - 1) - i)) :
                 <<r, i>> \in { p \in WeekRows \X Slots :
                                  \/ WeightIn(p[1], p[2]).value # None
                                  \/ CaloriesIn(p[1], p[2]).value # None } }

\* a finished scan that wrote entries and left out a date of an expanded
\* week whose weight and calories are both null
C2_Witness ==
    /\ ScanComplete
    /\ import_entries # EmptyDict
    /\ \E r \in WeekRows, i \in Slots :
          /\ WeightIn(r, i).value = None
          /\ CaloriesIn(r, i).value = None
          /\ date_str(DateOf(sheet[r][DateCol]), i) \notin DOMAIN import_entries

C4_OrderInsensitive ==
    (ScanComplete /\ AtMostOneSource) =>
       \A seq \in Orders(WeekRows) :
          Fields(ExpandInOrder(seq, Cardinality(WeekRows)))
             = Fields(import_entries)

\* C5: merge idempotence. Right after the scan has expanded a week into the
\* entries, whatever they held before, expanding the same week once more
\* gives the same keys and the same weight and calories per key; only
\* updatedAt differs.
C5_MergeIdempotent ==
    (pc = "scan" /\ (row - 1) \in WeekRows) =>
       LET twice == ProcessRow(import_entries, sheet, row - 1, now).entries
       IN  Fields(twice) = Fields(import_entries)

\* the scan went through the same calorie row and weight row twice in
\* succession and holds entries with both fields set
C5_Witness ==
    /\ ScanComplete
    /\ {FirstRow - 1, FirstRow, FirstRow + 1, FirstRow + 2} \subseteq DOMAIN sheet
    /\ sheet[FirstRow + 1] = sheet[FirstRow - 1]
    /\ sheet[FirstRow + 2] = sheet[FirstRow]
    /\ WeekRows = {FirstRow, FirstRow + 2}
    /\ \E k \in DOMAIN import_entries :
          /\ import_entries[k].weight # None
          /\ import_entries[k].calories # None
          /\ origin[k].row = FirstRow + 2

\* C6: row classification. Every non-null weight or calories value of an
\* entry was read from a row whose type tag is the weight label or the
\* calorie label; a row with a blank or other tag contributes nothing.
C6_OnlyTaggedRows ==
    \A k \in DOMAIN import_entries :
       /\ import_entries[k].weight # None =>
             sheet[origin[k].row][TypeCol] \in {PyStr("Weight"), PyStr("Cal.")}
       /\ import_entries[k].calories # None =>
             sheet[origin[k].row - 1][TypeCol]
                \in {PyStr("Weight"), PyStr("Cal.")}

\* C7: non-numeric coercion. Normalization never raises, and a date of the
\* week just expanded whose one cell is non-numeric text while the other is
\* a number has an entry with the numeric field set and the other null.
C7_NonNumericCoercion ==
    /\ exc # PyStr("OverflowError")
    /\ (pc = "scan" /\ (row - 1) \in WeekRows) =>
          \A i \in Slots :
             LET w == sheet[row - 1][FirstValCol + i]
                 c == sheet[row - 2][FirstValCol + i]
                 k == date_str(DateOf(sheet[row - 1][DateCol]), i)
             IN  /\ (IsNumber(w) /\ IsText(c)) =>
                       /\ k \in DOMAIN import_entries
                       /\ import_entries[k].weight = PyFloat(w.n)
                       /\ import_entries[k].calories = None
                 /\ (IsText(w) /\ IsNumber(c)) =>
                       /\ k \in DOMAIN import_entries
                       /\ import_entries[k].weight = None
                       /\ import_entries[k].calories = PyFloat(c.n)

\* C8 as stated: a run with no input file writes no output, scans no row
\* and reports the attempted paths; every run that finds an input file
\* writes the output file exactly once.
C8_WrittenWheneverFound ==
    pc \in {"returned", "raised"} =>
       IF input_file = None
       THEN /\ output = << >>
            /\ DOMAIN sheet = {}
            /\ stdout[Len(stdout)] = Say("Tried", possible_paths)
       ELSE Len(output) = 1

\* C8, amended: a run with no input file writes no output, scans no row and
\* reports the attempted paths; a run that finds an input file and returns
\* has written the output file exactly once, with every entry, also when
\* there is none; a run ended by an exception has written nothing.
C8_WrittenOnReturn ==
    /\ Len(output) <= 1
    /\ output # << >> => pc = "returned"
    /\ pc \in {"returned", "raised"} =>
          /\ input_file = None =>
                /\ pc = "returned"
                /\ output = << >>
                /\ DOMAIN sheet = {} /\ row = FirstRow
                /\ stdout[Len(stdout)] = Say("Tried", possible_paths)
          /\ (input_file # None /\ pc = "returned") =>
                /\ Len(output) = 1
                /\ output[1].file = output_file
                /\ Len(output[1].data.entries)
                      = Cardinality(DOMAIN import_entries)
          /\ pc = "raised" => output = << >>

\* the run that found no candidate path has returned
C8_Witness ==
    /\ pc = "returned"
    /\ input_file = None
    /\ output = << >>
    /\ Len(stdout) = 2

C10_RowsBeforeAnchorSkipped ==
    \A k \in DOMAIN import_entries :
       import_entries[k].calories # None =>
          /\ origin[k].row - 1 >= FirstRow
          /\ DatedBefore(origin[k].row) # {}

\* C10, amended: the scan keeps no state between rows. While no row with a
\* valid date and the tag Weight has been scanned there is no entry; from
\* the rows before the first such row, only the row directly above it (the
\* row above the scan range included) contributes, and it contributes the
\* calories of that week.
C10_RowAboveIsCalories ==
    /\ WeekRows = {} => import_entries = EmptyDict
    /\ \A k \in DOMAIN import_entries :
          LET o == origin[k]
          IN  /\ \E q \in WeekRows : q <= o.row
              /\ Ok(import_entries[k].calories) = CaloriesIn(o.row, o.slot)

\* the first scanned row is a dated Weight row and the row above the scan
\* range gave the calories of an entry
C10_Witness ==
    /\ FirstRow \in WeekRows
    /\ \E k \in DOMAIN import_entries :
          /\ origin[k].row = FirstRow
          /\ import_entries[k].calories # None
          /\ sheet[FirstRow - 1][TypeCol] = PyStr("Cal.")

====
